---- MODULE Spec2Model ----
(***************************************************************************)
(* Model of backend/server.py: the FastAPI service in front of three       *)
(* MongoDB collections (users, medical_history, analyses), an external AI  *)
(* collaborator (LlmChat.send_message) and JWT bearer authentication.      *)
(*                                                                         *)
(* Handlers whose body awaits the store twice (register,                   *)
(* create_medical_history) are split at that await: other requests run     *)
(* between the two store operations.  Every other handler touches shared   *)
(* state at most once and is one action.                                   *)
(***************************************************************************)
EXTENDS Integers, Sequences, FiniteSets, TLC

\* -------------------------------------------------------------- bounds
MaxReqs == 2         \* requests in flight at the same time
MaxUsers == 2        \* cap on user documents
MaxHist == 2         \* cap on medical_history documents
MaxAnalyses == 2     \* cap on analyses documents
MaxDocs == 1         \* the same cap where every endpoint runs
MaxTicks == 2        \* cap on clock ticks

Reqs == 1..MaxReqs

\* -------------------------------------------------------------- values
None == 0            \* Python None where an integer is expected
NoneStr == "None"    \* Python None where a string is expected

Emails == {"a@x.org", "b@x.org"}
FullNames == {"Ann"}
Passwords == {"pw1", "pw2"}

\* ---------------------------------------------------------------- time
\* datetime.now(timezone.utc): the clock counts ticks of half a second, so
\* that timestamps with microsecond = 0 and with microsecond # 0 both occur.
TickMicros == 5 * 100000

Minute(t) == (t \div 2) \div 60
Second(t) == (t \div 2) % 60
Micro(t) == (t % 2) * TickMicros

Digit(d) == 48 + d
TwoDigits(n) == <<Digit(n \div 10), Digit(n % 10)>>
SixDigits(n) ==
    <<Digit((n \div 100000) % 10), Digit((n \div 10000) % 10),
      Digit((n \div 1000) % 10), Digit((n \div 100) % 10),
      Digit((n \div 10) % 10), Digit(n % 10)>>

\* "+00:00" in character codes
UtcOffset == <<43, 48, 48, 58, 48, 48>>

\* datetime.isoformat() of an aware UTC datetime, from the minutes on:
\* "MM:SS.ffffff+00:00", and "MM:SS+00:00" when microsecond = 0.  The
\* leading "YYYY-MM-DDTHH:" is the same for every instant of the modelled
\* hour and is left out.  Strings are sequences of character codes.
isoformat(t) ==
    TwoDigits(Minute(t)) \o <<58>> \o TwoDigits(Second(t))
      \o (IF Micro(t) = 0 THEN <<>> ELSE <<46>> \o SixDigits(Micro(t)))
      \o UtcOffset

DigitsValue(s) ==
    LET RECURSIVE Val(_)
        Val(k) == IF k = 0 THEN 0 ELSE 10 * Val(k - 1) + (s[k] - 48)
    IN Val(Len(s))

\* datetime.fromisoformat(): back to an instant (in ticks).
fromisoformat(s) ==
    LET mm == DigitsValue(SubSeq(s, 1, 2))
        ss == DigitsValue(SubSeq(s, 4, 5))
        us == IF s[6] = 46 THEN DigitsValue(SubSeq(s, 7, 12)) ELSE 0
    IN (mm * 60 + ss) * 2 + us \div TickMicros

\* Python/BSON string comparison: by code point, a proper prefix first.
RECURSIVE StrLessFrom(_, _, _)
StrLessFrom(a, b, k) ==
    IF k > Len(b) THEN FALSE
    ELSE IF k > Len(a) THEN TRUE
    ELSE IF a[k] < b[k] THEN TRUE
    ELSE IF a[k] > b[k] THEN FALSE
    ELSE StrLessFrom(a, b, k + 1)

StrLess(a, b) == StrLessFrom(a, b, 1)

\* -------------------------------------------------------------- tokens
\* A bearer token as jwt.decode sees it: whether it splits into three
\* base64 segments holding a JSON object, whether the HS256 signature
\* matches JWT_SECRET, whether exp is still ahead, and the payload.
create_token(user_id, email) ==
    [form |-> "jwt", sig |-> "valid", exp |-> "future",
     user_id |-> user_id, email |-> email]

MalformedToken ==
    [form |-> "garbage", sig |-> "none", exp |-> "none",
     user_id |-> None, email |-> NoneStr]
TamperedToken(tok) == [tok EXCEPT !.sig = "invalid"]
ExpiredToken(tok) == [tok EXCEPT !.exp = "past"]
NoUserIdToken == create_token(None, "a@x.org")
NoToken == [form |-> "absent", sig |-> "none", exp |-> "none",
            user_id |-> None, email |-> NoneStr]

\* jwt.decode(token, JWT_SECRET, algorithms=[JWT_ALGORITHM]): PyJWT splits
\* the segments, verifies the signature, then validates exp.
jwt_decode(tok) ==
    IF tok.form # "jwt" THEN [err |-> "DecodeError", user_id |-> None]
    ELSE IF tok.sig # "valid"
      THEN [err |-> "InvalidSignatureError", user_id |-> None]
    ELSE IF tok.exp # "future"
      THEN [err |-> "ExpiredSignatureError", user_id |-> None]
    ELSE [err |-> "ok", user_id |-> tok.user_id]

\* The exception classes PyJWT derives from InvalidTokenError.
InvalidTokenErrors ==
    {"DecodeError", "InvalidSignatureError", "ExpiredSignatureError"}

\* get_current_user without its  except jwt.ExpiredSignatureError  clause
\* and with  except jwt.DecodeError  in place of  except InvalidTokenError.
get_current_user_expired_uncaught(tok) ==
    LET payload == jwt_decode(tok) IN
    IF payload.err = "DecodeError"
      THEN [status |-> 401, detail |-> "Invalid token", user_id |-> None]
    ELSE IF payload.err # "ok"
      THEN [status |-> 500, detail |-> "Internal Server Error", user_id |-> None]
    ELSE IF payload.user_id = None
      THEN [status |-> 401, detail |-> "Invalid token", user_id |-> None]
    ELSE [status |-> 200, detail |-> "", user_id |-> payload.user_id]

\* get_current_user: the dependency of every protected route.  status 200
\* stands for "returned user_id"; any other status is the HTTPException
\* (or the unhandled exception, 500) the request ends with.
get_current_user(tok) ==
    LET payload == jwt_decode(tok) IN
    IF payload.err = "ExpiredSignatureError"
      THEN [status |-> 401, detail |-> "Token expired", user_id |-> None]
    ELSE IF payload.err \in InvalidTokenErrors
      THEN [status |-> 401, detail |-> "Invalid token", user_id |-> None]
    ELSE IF payload.err # "ok"
      THEN [status |-> 500, detail |-> "Internal Server Error", user_id |-> None]
    ELSE IF payload.user_id = None
      THEN [status |-> 401, detail |-> "Invalid token", user_id |-> None]
    ELSE [status |-> 200, detail |-> "", user_id |-> payload.user_id]

\* ----------------------------------------------------------- passwords
\* pwd_context.hash / pwd_context.verify (bcrypt; the salt is left out).
hash_password(password) == <<"bcrypt", password>>
verify_password(plain_password, hashed_password) ==
    hashed_password = <<"bcrypt", plain_password>>

\* --------------------------------------------------------------- state
VARIABLES
    users,             \* db.users: set of user documents
    medical_history,   \* db.medical_history: set of documents
    analyses,          \* db.analyses: documents in insertion order
    pc,                \* per request slot: where a two-step handler stands
    resp,              \* what the step just taken answered
    now                \* the wall clock, in ticks

vars == <<users, medical_history, analyses, pc, resp, now>>

Idle == [st |-> "idle"]

\* The step just taken sent no response (a handler is between two awaits,
\* or the clock ticked).
NoResp == [op |-> "none", status |-> 0, tok |-> NoToken]

Init ==
    /\ users = {}
    /\ medical_history = {}
    /\ analyses = <<>>
    /\ pc = [p \in Reqs |-> Idle]
    /\ resp = NoResp
    /\ now = 0

\* The bearer tokens a client can present: those the service issued for a
\* stored user, the same after expiry or with a changed signature, a string
\* that is no JWT, and a signed token without user_id.
IssuedTokens == {create_token(u.id, u.email) : u \in users}
BadTokens ==
    {MalformedToken, NoUserIdToken}
      \cup {TamperedToken(t) : t \in IssuedTokens}
      \cup {ExpiredToken(t) : t \in IssuedTokens}
Tokens == IssuedTokens \cup BadTokens

Unauthorized(op, tok) ==
    [op |-> op, status |-> get_current_user(tok).status, tok |-> tok,
     detail |-> get_current_user(tok).detail, ai |-> FALSE]

\* ------------------------------------------------------------ register
InFlight(st) == {p \in Reqs : pc[p].st = st}

\* User(...).model_dump(): the public record, no password.
PublicUser(doc) ==
    [id |-> doc.id, email |-> doc.email, full_name |-> doc.full_name,
     created_at |-> fromisoformat(doc.created_at)]

\* register without the existence check
EmailTakenNever(email) == FALSE

\* existing_user = await db.users.find_one({"email": user_data.email});
\* if existing_user
EmailTaken(email) == \E u \in users : u.email = email

\* register up to the first await: find_one, and the conflict it may find.
RegisterFind(p, email, full_name, password) ==
    /\ pc[p] = Idle
    /\ IF EmailTaken(email)
         THEN /\ resp' = [op |-> "register", status |-> 400, tok |-> NoToken,
                          detail |-> "Email already registered",
                          email |-> email]
              /\ pc' = pc
         ELSE /\ Cardinality(users) + Cardinality(InFlight("register")) < MaxUsers
              /\ pc' = [pc EXCEPT ![p] =
                          [st |-> "register", email |-> email,
                           full_name |-> full_name, password |-> password]]
              /\ resp' = NoResp
    /\ UNCHANGED <<users, medical_history, analyses, now>>

NewUserDoc(id, email, full_name, password, t) ==
    [id |-> id, email |-> email, full_name |-> full_name,
     created_at |-> isoformat(t), password |-> hash_password(password)]

\* register after find_one answered None: build the user, insert_one,
\* create_token, return.
RegisterInsert(p) ==
    /\ pc[p].st = "register"
    /\ LET user_doc == NewUserDoc(Cardinality(users) + 1, pc[p].email,
                                  pc[p].full_name, pc[p].password, now)
       IN /\ users' = users \cup {user_doc}
          /\ resp' = [op |-> "register", status |-> 200, tok |-> NoToken,
                      email |-> pc[p].email,
                      token |-> create_token(user_doc.id, user_doc.email),
                      user |-> PublicUser(user_doc)]
    /\ pc' = [pc EXCEPT ![p] = Idle]
    /\ UNCHANGED <<medical_history, analyses, now>>

\* --------------------------------------------------------------- login
Login(email, password) ==
    /\ IF \E u \in users : u.email = email
         THEN \E user_doc \in {u \in users : u.email = email} :
                IF verify_password(password, user_doc.password)
                  THEN resp' = [op |-> "login", status |-> 200, tok |-> NoToken,
                                token |-> create_token(user_doc.id, user_doc.email),
                                user |-> PublicUser(user_doc)]
                  ELSE resp' = [op |-> "login", status |-> 401, tok |-> NoToken,
                                detail |-> "Invalid credentials"]
         ELSE resp' = [op |-> "login", status |-> 401, tok |-> NoToken,
                       detail |-> "Invalid credentials"]
    /\ UNCHANGED <<users, medical_history, analyses, pc, now>>

\* -------------------------------------------------------------- get_me
\* find_one({"id": user_id}, {"_id": 0, "password": 0})
WithoutPassword(doc) ==
    [id |-> doc.id, email |-> doc.email, full_name |-> doc.full_name,
     created_at |-> doc.created_at]

GetMe(tok) ==
    /\ LET auth == get_current_user(tok) IN
       IF auth.status # 200 THEN resp' = Unauthorized("get_me", tok)
       ELSE IF \E u \in users : u.id = auth.user_id
         THEN \E user_doc \in {u \in users : u.id = auth.user_id} :
                resp' = [op |-> "get_me", status |-> 200, tok |-> tok,
                         ai |-> FALSE, body |-> WithoutPassword(user_doc)]
         ELSE resp' = [op |-> "get_me", status |-> 404, tok |-> tok,
                       ai |-> FALSE, detail |-> "User not found"]
    /\ UNCHANGED <<users, medical_history, analyses, pc, now>>

\* ---------------------------------------------------------------- clock
Tick(limit) ==
    /\ now < limit
    /\ now' = now + 1
    /\ resp' = NoResp
    /\ UNCHANGED <<users, medical_history, analyses, pc>>

\* ----------------------------------------------------- medical history
\* MedicalHistory(user_id=user_id, **data.model_dump()).model_dump()
NewHistoryDoc(id, user_id, data, created_at) ==
    [id |-> id, user_id |-> user_id, age |-> data.age,
     family_history |-> data.family_history,
     previous_biopsies |-> data.previous_biopsies,
     hormone_therapy |-> data.hormone_therapy,
     first_pregnancy_age |-> data.first_pregnancy_age,
     menstruation_age |-> data.menstruation_age,
     breast_density |-> data.breast_density,
     created_at |-> created_at]

\* str(uuid.uuid4()): an id no stored document of the collection has
FreshId(coll) ==
    CHOOSE n \in 1..(Cardinality(coll) + 1) : \A d \in coll : d.id # n

\* create_medical_history without its delete_many (append, not replace)
delete_many_nothing(coll, user_id) == coll

\* delete_many({}) : the filter on user_id forgotten
delete_many_everyone(coll, user_id) == {}

\* db.medical_history.delete_many({"user_id": user_id})
delete_many(coll, user_id) == {d \in coll : d.user_id # user_id}

\* create_medical_history up to the first await: authentication, then
\* delete_many on the caller's documents.
CreateMedicalHistoryDelete(p, tok, data) ==
    /\ pc[p] = Idle
    /\ LET auth == get_current_user(tok) IN
       IF auth.status # 200
         THEN /\ resp' = Unauthorized("create_medical_history", tok)
              /\ UNCHANGED <<medical_history, pc>>
         ELSE /\ Cardinality(delete_many(medical_history, auth.user_id))
                   + Cardinality(InFlight("history")) < MaxHist
              /\ medical_history' = delete_many(medical_history, auth.user_id)
              /\ pc' = [pc EXCEPT ![p] =
                          [st |-> "history", user_id |-> auth.user_id,
                           tok |-> tok, data |-> data]]
              /\ resp' = NoResp
    /\ UNCHANGED <<users, analyses, now>>

\* create_medical_history after delete_many returned: build the document,
\* insert_one, return the MedicalHistory.
CreateMedicalHistoryInsert(p) ==
    /\ pc[p].st = "history"
    /\ LET history_doc == NewHistoryDoc(FreshId(medical_history),
                                        pc[p].user_id, pc[p].data,
                                        isoformat(now))
       IN /\ medical_history' = medical_history \cup {history_doc}
          /\ resp' = [op |-> "create_medical_history", status |-> 200,
                      tok |-> pc[p].tok, ai |-> FALSE, req |-> pc[p].data,
                      body |-> [history_doc EXCEPT !.created_at = now]]
    /\ pc' = [pc EXCEPT ![p] = Idle]
    /\ UNCHANGED <<users, analyses, now>>

\* get_medical_history: find_one({"user_id": user_id}, {"_id": 0}); which
\* of several matching documents find_one returns is the store's choice.
GetMedicalHistory(tok) ==
    /\ LET auth == get_current_user(tok) IN
       IF auth.status # 200
         THEN resp' = Unauthorized("get_medical_history", tok)
       ELSE IF \E d \in medical_history : d.user_id = auth.user_id
         THEN \E history \in {d \in medical_history : d.user_id = auth.user_id} :
                resp' = [op |-> "get_medical_history", status |-> 200,
                         tok |-> tok, ai |-> FALSE, found |-> TRUE,
                         body |-> history]
         ELSE resp' = [op |-> "get_medical_history", status |-> 200,
                       tok |-> tok, ai |-> FALSE, found |-> FALSE]
    /\ UNCHANGED <<users, medical_history, analyses, pc, now>>

\* ---------------------------------------------------------------- text
\* str.lower() on ASCII text
LowerChar(c) == IF c >= 65 /\ c <= 90 THEN c + 32 ELSE c
lower(s) == [k \in 1..Len(s) |-> LowerChar(s[k])]

\* Python's  sub in s
Contains(sub, s) ==
    \E k \in 0..(Len(s) - Len(sub)) : SubSeq(s, k + 1, k + Len(sub)) = sub

\* img_base64 stored whole, the slice left out
PrefixWhole(s, n) == s

\* s[:n]
Prefix(s, n) == SubSeq(s, 1, IF Len(s) < n THEN Len(s) ELSE n)

HIGH_RISK == <<104, 105, 103, 104, 32, 114, 105, 115, 107>>            \* "high risk"
HIGH_RISK_HYPHEN == <<104, 105, 103, 104, 45, 114, 105, 115, 107>>     \* "high-risk"
MODERATE_RISK == <<109, 111, 100, 101, 114, 97, 116, 101, 32, 114, 105, 115, 107>>   \* "moderate risk"
MODERATE == <<109, 111, 100, 101, 114, 97, 116, 101>>   \* "moderate"

\* --------------------------------------------------- the AI collaborator
\* What chat.send_message does: it returns a text or it raises.
ReplyHigh == <<72, 105, 103, 104, 32, 82, 105, 115, 107>>   \* "High Risk"
ReplyHighModerate == <<109, 111, 100, 101, 114, 97, 116, 101, 44, 32, 104, 105, 103, 104, 45, 114, 105, 115, 107>>   \* "moderate, high-risk"
ReplyModerate == <<77, 111, 100, 101, 114, 97, 116, 101>>   \* "Moderate"
ReplyLow == <<108, 111, 119>>   \* "low"
ReplyHighHyphenUpper == <<72, 73, 71, 72, 45, 82, 73, 83, 75>>   \* "HIGH-RISK"
ReplyHighThenModerate == <<72, 105, 103, 104, 32, 114, 105, 115, 107, 63, 32, 78, 111, 58, 32, 77, 79, 68, 69, 82, 65, 84, 69>>   \* "High risk? No: MODERATE"
ReplyNoHighRisk == <<78, 111, 32, 104, 105, 103, 104, 32, 114, 105, 115, 107>>   \* "No high risk"
ReplyModerateRiskUpper == <<77, 79, 68, 69, 82, 65, 84, 69, 32, 82, 73, 83, 75>>   \* "MODERATE RISK"
ReplyHighNotModerate == <<82, 105, 115, 107, 32, 105, 115, 32, 104, 105, 103, 104, 44, 32, 110, 111, 116, 32, 109, 111, 100, 101, 114, 97, 116, 101>>   \* "Risk is high, not moderate"
ReplyRiskHigh == <<82, 105, 115, 107, 58, 32, 104, 105, 103, 104>>   \* "Risk: high"
ReplyHighrisk == <<104, 105, 103, 104, 114, 105, 115, 107>>   \* "highrisk"
ReplyHighTwoSpaces == <<104, 105, 103, 104, 32, 32, 114, 105, 115, 107>>   \* "high  risk"
ReplyEmpty == <<>>   \* ""

\* Reply texts: each phrase in several cases, alone and together, in both
\* orders, and texts with "high" where "risk" does not follow.
ReplyTexts ==
    {ReplyHigh, ReplyHighModerate, ReplyModerate, ReplyLow,
     ReplyHighHyphenUpper, ReplyHighThenModerate, ReplyNoHighRisk,
     ReplyModerateRiskUpper, ReplyHighNotModerate, ReplyRiskHigh,
     ReplyHighrisk, ReplyHighTwoSpaces, ReplyEmpty}

AIReply(text) == [ok |-> TRUE, text |-> text]
AIFailure == [ok |-> FALSE, text |-> <<>>]

\* ------------------------------------------------------------ analyses
\* insert_one called a second time after it succeeded (a retry)
insert_one_retried(coll, doc, ok) ==
    IF ok THEN Append(Append(coll, doc), doc) ELSE coll

\* await db.analyses.insert_one(analysis_doc): the document is stored, or
\* the call raises and nothing is stored.
insert_one(coll, doc, ok) == IF ok THEN Append(coll, doc) ELSE coll

\* Analysis(...).model_dump(), with created_at as isoformat()
NewAnalysisDoc(id, user_id, type, result, level, recs, image, created) ==
    [id |-> id, user_id |-> user_id, analysis_type |-> type,
     result |-> result, risk_level |-> level, recommendations |-> recs,
     image_data |-> image, created_at |-> created]

\* ------------------------------------------------------- analyze_image
\* The uploaded file: whether PIL can open it, and the base64 text of its
\* PNG re-encoding.
ImageFile(b64) == [decodable |-> TRUE, img_base64 |-> b64]
NotAnImage == [decodable |-> FALSE, img_base64 |-> <<>>]

ThumbLen == 1000

\* the two tests in the other order: "moderate" before "high risk"
image_risk_level_moderate_first(ai_response) ==
    LET response_lower == lower(ai_response) IN
    IF Contains(MODERATE_RISK, response_lower)
         \/ Contains(MODERATE, response_lower)
      THEN "moderate"
    ELSE IF Contains(HIGH_RISK, response_lower)
         \/ Contains(HIGH_RISK_HYPHEN, response_lower)
      THEN "high"
    ELSE "low"

\* the risk level parsed from the AI reply
image_risk_level(ai_response) ==
    LET response_lower == lower(ai_response) IN
    IF Contains(HIGH_RISK, response_lower)
         \/ Contains(HIGH_RISK_HYPHEN, response_lower)
      THEN "high"
    ELSE IF Contains(MODERATE_RISK, response_lower)
         \/ Contains(MODERATE, response_lower)
      THEN "moderate"
    ELSE "low"

image_recommendations ==
    <<"Consult with a healthcare professional",
      "Schedule a follow-up examination",
      "Maintain regular screening schedule">>

\* analysis.model_dump(exclude={"image_data"})
ExcludeImageData(doc, t) ==
    [id |-> doc.id, user_id |-> doc.user_id,
     analysis_type |-> doc.analysis_type, result |-> doc.result,
     risk_level |-> doc.risk_level, recommendations |-> doc.recommendations,
     created_at |-> t]

\* except Exception as e: raise HTTPException(status_code=500, ...)
ServerError(op, tok, req, cause, aiCalled) ==
    [op |-> op, status |-> 500, tok |-> tok, ai |-> aiCalled, req |-> req,
     cause |-> cause]

\* analyze_image.  file: the upload; ai: what the collaborator does when
\* asked; insertOk: whether db.analyses.insert_one succeeds; cap: the bound
\* on stored documents.
AnalyzeImage(tok, file, ai, insertOk, cap) ==
    /\ LET auth == get_current_user(tok) IN
       IF auth.status # 200
         THEN /\ resp' = Unauthorized("analyze_image", tok)
              /\ UNCHANGED analyses
       ELSE IF ~file.decodable
         THEN /\ resp' = ServerError("analyze_image", tok, file,
                                     "cannot identify image file", FALSE)
              /\ UNCHANGED analyses
       ELSE IF ~ai.ok
         THEN /\ resp' = ServerError("analyze_image", tok, file,
                                     "AI collaborator failed", TRUE)
              /\ UNCHANGED analyses
       ELSE LET analysis ==
                  NewAnalysisDoc(Len(analyses) + 1, auth.user_id, "image",
                                 ai.text, image_risk_level(ai.text),
                                 image_recommendations,
                                 Prefix(file.img_base64, ThumbLen),
                                 isoformat(now))
            IN IF ~insertOk
                 THEN /\ resp' = ServerError("analyze_image", tok, file,
                                             "insert_one failed", TRUE)
                      /\ analyses' = insert_one(analyses, analysis, insertOk)
                 ELSE /\ Len(analyses) < cap
                      /\ analyses' = insert_one(analyses, analysis, insertOk)
                      /\ resp' = [op |-> "analyze_image", status |-> 200,
                                  tok |-> tok, ai |-> TRUE, req |-> file,
                                  reply |-> ai.text,
                                  body |-> ExcludeImageData(analysis, now)]
    /\ UNCHANGED <<users, medical_history, pc, now>>

\* ----------------------------------------------------- risk_assessment
\* the age brackets as three  if  instead of  if / elif / elif
risk_score_additive_age(data) ==
    LET a1 == IF data.age > 50 THEN 3 ELSE 0
        a2 == IF data.age > 40 THEN a1 + 2 ELSE a1
        a3 == IF data.age > 30 THEN a2 + 1 ELSE a2
        s2 == IF data.family_history THEN a3 + 4 ELSE a3
        s3 == IF data.previous_biopsies THEN s2 + 3 ELSE s2
        s4 == IF data.hormone_therapy THEN s3 + 2 ELSE s3
        s5 == IF data.breast_density = "dense" THEN s4 + 2 ELSE s4
    IN s5

\* the additive point score
risk_score(data) ==
    LET age_points == IF data.age > 50 THEN 3
                      ELSE IF data.age > 40 THEN 2
                      ELSE IF data.age > 30 THEN 1
                      ELSE 0
        s1 == 0 + age_points
        s2 == IF data.family_history THEN s1 + 4 ELSE s1
        s3 == IF data.previous_biopsies THEN s2 + 3 ELSE s2
        s4 == IF data.hormone_therapy THEN s3 + 2 ELSE s3
        s5 == IF data.breast_density = "dense" THEN s4 + 2 ELSE s4
    IN s5

\* the risk level of a score
risk_level_of(score) ==
    IF score >= 8 THEN "high"
    ELSE IF score >= 4 THEN "moderate"
    ELSE "low"

baseline_recommendations ==
    <<"Schedule annual mammogram screening",
      "Perform monthly self-examinations",
      "Maintain a healthy lifestyle",
      "Discuss results with your healthcare provider">>

\* both items inserted at index 0: the genetic-testing item comes first
risk_recommendations_both_at_front(risk_level) ==
    IF risk_level = "high"
      THEN <<"Consider genetic testing">>
             \o <<"Consult with an oncologist immediately">>
             \o baseline_recommendations
      ELSE baseline_recommendations

\* list.insert(0, ...) then list.insert(1, ...) when the level is high
risk_recommendations(risk_level) ==
    IF risk_level = "high"
      THEN LET r1 == <<"Consult with an oncologist immediately">>
                       \o baseline_recommendations
           IN <<r1[1]>> \o <<"Consider genetic testing">> \o Tail(r1)
      ELSE baseline_recommendations

\* analysis.model_dump()
ModelDump(doc, t) == [doc EXCEPT !.created_at = t]

\* risk_assessment.  data: the RiskAssessmentRequest; ai, insertOk, cap as
\* for analyze_image.
RiskAssessment(tok, data, ai, insertOk, cap) ==
    /\ LET auth == get_current_user(tok) IN
       IF auth.status # 200
         THEN /\ resp' = Unauthorized("risk_assessment", tok)
              /\ UNCHANGED analyses
       ELSE IF ~ai.ok
         THEN /\ resp' = ServerError("risk_assessment", tok, data,
                                     "AI collaborator failed", TRUE)
              /\ UNCHANGED analyses
       ELSE LET risk_level == risk_level_of(risk_score(data))
                analysis ==
                  NewAnalysisDoc(Len(analyses) + 1, auth.user_id,
                                 "risk_assessment", ai.text, risk_level,
                                 risk_recommendations(risk_level), <<>>,
                                 isoformat(now))
            IN IF ~insertOk
                 THEN /\ resp' = ServerError("risk_assessment", tok, data,
                                             "insert_one failed", TRUE)
                      /\ analyses' = insert_one(analyses, analysis, insertOk)
                 ELSE /\ Len(analyses) < cap
                      /\ analyses' = insert_one(analyses, analysis, insertOk)
                      /\ resp' = [op |-> "risk_assessment", status |-> 200,
                                  tok |-> tok, ai |-> TRUE, req |-> data,
                                  reply |-> ai.text,
                                  body |-> ModelDump(analysis, now)]
    /\ UNCHANGED <<users, medical_history, pc, now>>

\* -------------------------------------------------------- get_analyses
ListLimit == 100

\* Two lists in descending order of created_at (compared as strings, as
\* the store compares them) merged into one.  When one list may simply
\* follow the other it does; otherwise each document goes to the place its
\* rank gives it, those of a before those of b among equal keys.
MergeDesc(a, b) ==
    IF Len(a) = 0 \/ Len(b) = 0 THEN a \o b
    ELSE IF ~StrLess(a[Len(a)].created_at, b[1].created_at) THEN a \o b
    ELSE IF ~StrLess(b[Len(b)].created_at, a[1].created_at) THEN b \o a
    ELSE LET posA(i) == i + Cardinality({j \in 1..Len(b) :
                              StrLess(a[i].created_at, b[j].created_at)})
             posB(j) == j + Cardinality({i \in 1..Len(a) :
                              ~StrLess(a[i].created_at, b[j].created_at)})
         IN [k \in 1..(Len(a) + Len(b)) |->
               IF \E i \in 1..Len(a) : posA(i) = k
                 THEN a[CHOOSE i \in 1..Len(a) : posA(i) = k]
                 ELSE b[CHOOSE j \in 1..Len(b) : posB(j) = k]]

RECURSIVE MergeSortDesc(_, _, _)
MergeSortDesc(docs, lo, hi) ==
    IF lo > hi THEN <<>>
    ELSE IF lo = hi THEN <<docs[lo]>>
    ELSE LET mid == (lo + hi) \div 2
         IN MergeDesc(MergeSortDesc(docs, lo, mid),
                      MergeSortDesc(docs, mid + 1, hi))

\* The orders that differ from a sorted list only in the order of documents
\* with equal keys.
TiePermutations(sorted) ==
    LET n == Len(sorted)
        tied == {k \in 1..n :
                   \/ (k > 1 /\ sorted[k - 1].created_at = sorted[k].created_at)
                   \/ (k < n /\ sorted[k + 1].created_at = sorted[k].created_at)}
        perms == {f \in [tied -> tied] :
                    /\ \A x, y \in tied : f[x] = f[y] => x = y
                    /\ \A x \in tied :
                         sorted[f[x]].created_at = sorted[x].created_at}
    IN {[k \in 1..n |-> IF k \in tied THEN sorted[f[k]] ELSE sorted[k]] :
          f \in perms}

\* find(...).to_list(100) without the sort: the store's natural order
sort_desc_natural_order(docs) == {docs}

\* cursor.sort("created_at", -1): every order the store may return, the
\* order among equal keys being the store's choice.
sort_desc(docs) == TiePermutations(MergeSortDesc(docs, 1, Len(docs)))

\* db.analyses.find({"user_id": user_id}, {"_id": 0})
find_analyses(user_id) == SelectSeq(analyses, LAMBDA d : d.user_id = user_id)

\* the loop over the result: created_at strings back to datetimes
ParseCreatedAt(docs) ==
    [k \in 1..Len(docs) |->
       [docs[k] EXCEPT !.created_at = fromisoformat(docs[k].created_at)]]

GetAnalysesResults(user_id) ==
    {ParseCreatedAt(Prefix(s, ListLimit)) : s \in sort_desc(find_analyses(user_id))}

GetAnalyses(tok) ==
    /\ LET auth == get_current_user(tok) IN
       IF auth.status # 200
         THEN resp' = Unauthorized("get_analyses", tok)
         ELSE \E result \in GetAnalysesResults(auth.user_id) :
                resp' = [op |-> "get_analyses", status |-> 200, tok |-> tok,
                         ai |-> FALSE, body |-> result]
    /\ UNCHANGED <<users, medical_history, analyses, pc, now>>

\* ---------------------------------------------------------------- inputs
HistoryData(age, fh, pb, ht, density) ==
    [age |-> age, family_history |-> fh, previous_biopsies |-> pb,
     hormone_therapy |-> ht, first_pregnancy_age |-> None,
     menstruation_age |-> None, breast_density |-> density]

HistoryInputs ==
    {HistoryData(35, TRUE, FALSE, FALSE, "normal"),
     HistoryData(45, FALSE, TRUE, FALSE, NoneStr)}

\* Ages on both sides of every bracket, every combination of the factors.
Ages == {25, 30, 31, 40, 41, 42, 45, 50, 51}
Densities == {"dense", "normal", NoneStr}
RiskRequests ==
    {HistoryData(age, fh, pb, ht, density) :
       age \in Ages, fh \in BOOLEAN, pb \in BOOLEAN, ht \in BOOLEAN,
       density \in Densities}

PngBase64 == <<105, 86, 66, 79, 82, 119, 48, 75, 71, 103, 111, 61>>  \* "iVBORw0KGgo="

\* The bytes image.save(buffered, format="PNG") writes: the PNG signature,
\* then the chunks (here bytes that vary with their position).
PngSignature == <<137, 80, 78, 71, 13, 10, 26, 10>>
PngBytes(n) ==
    [k \in 1..n |-> IF k <= 8 THEN PngSignature[k] ELSE (k * 37 + 11) % 256]

\* The base64 alphabet: A-Z, a-z, 0-9, "+", "/".
B64Char(v) ==
    IF v < 26 THEN 65 + v
    ELSE IF v < 52 THEN 97 + (v - 26)
    ELSE IF v < 62 THEN 48 + (v - 52)
    ELSE IF v = 62 THEN 43
    ELSE 47

\* base64.b64encode(buffered.getvalue()).decode(): four characters for
\* every three bytes, the last group padded with "=".
b64encode(bytes) ==
    LET n == Len(bytes)
        byte(i) == IF i <= n THEN bytes[i] ELSE 0
        group(g) == byte(3 * g + 1) * 65536 + byte(3 * g + 2) * 256
                      + byte(3 * g + 3)
    IN [k \in 1..(4 * ((n + 2) \div 3)) |->
          LET g == (k - 1) \div 4
              j == (k - 1) % 4
          IN IF 3 * g + j > n THEN 61
             ELSE B64Char((group(g) \div (64 ^ (3 - j))) % 64)]

\* An upload whose PNG re-encoding has n bytes.
Upload(n) == ImageFile(b64encode(PngBytes(n)))

\* Uploads whose base64 text is short (12 characters), just below ThumbLen
\* (996), exactly ThumbLen (1000) and above it (1004, 1336).
ImageFiles == {Upload(8), Upload(747), Upload(750), Upload(751), Upload(1000)}

Replies == {AIReply(ReplyHigh), AIReply(ReplyModerate), AIReply(ReplyLow)}

\* ------------------------------------------------------- specification
\* The operations by component; each takes the inputs clients may send.
AccountSteps(reqs, emails, passwords) ==
    \/ \E p \in reqs, email \in emails, full_name \in FullNames,
          password \in passwords :
         RegisterFind(p, email, full_name, password)
    \/ \E p \in reqs : RegisterInsert(p)
    \/ \E email \in emails, password \in Passwords : Login(email, password)
    \/ \E tok \in Tokens : GetMe(tok)

HistorySteps(reqs, inputs) ==
    \/ \E p \in reqs, tok \in Tokens, data \in inputs :
         CreateMedicalHistoryDelete(p, tok, data)
    \/ \E p \in reqs : CreateMedicalHistoryInsert(p)
    \/ \E tok \in Tokens : GetMedicalHistory(tok)

AnalysisSteps(toks, files, requests, ais, cap) ==
    \/ \E tok \in toks, file \in files, ai \in ais, insertOk \in BOOLEAN :
         AnalyzeImage(tok, file, ai, insertOk, cap)
    \/ \E tok \in toks, data \in requests, ai \in ais, insertOk \in BOOLEAN :
         RiskAssessment(tok, data, ai, insertOk, cap)
    \/ \E tok \in toks : GetAnalyses(tok)

\* Every endpoint, requests overlapping, with few inputs each, all within
\* one tick of the clock.
Next ==
    \/ AccountSteps(Reqs, Emails, {"pw1"})
    \/ HistorySteps(Reqs, {HistoryData(35, TRUE, FALSE, FALSE, "normal")})
    \/ AnalysisSteps(Tokens, {ImageFile(PngBase64), NotAnImage},
                     {HistoryData(45, TRUE, FALSE, TRUE, "dense")},
                     {AIReply(ReplyLow), AIFailure}, MaxDocs)

Spec == Init /\ [][Next]_vars

\* The store once two users have registered, one after the other.
SeededUsers ==
    {NewUserDoc(1, "a@x.org", "Ann", "pw1", 0),
     NewUserDoc(2, "b@x.org", "Ann", "pw1", 0)}

InitUsers ==
    /\ users = SeededUsers
    /\ medical_history = {}
    /\ analyses = <<>>
    /\ pc = [p \in Reqs |-> Idle]
    /\ resp = NoResp
    /\ now = 0

\* Registration and login alone, requests overlapping.
NextRegister == AccountSteps(Reqs, Emails, Passwords) \/ Tick(MaxTicks)
SpecRegister == Init /\ [][NextRegister]_vars

\* The medical profile store alone, requests overlapping.
NextHistory == HistorySteps(Reqs, HistoryInputs) \/ Tick(MaxTicks)
SpecHistory == InitUsers /\ [][NextHistory]_vars

\* The same, where the create_medical_history calls of one user run one
\* after another: a call starts only when no other call of that user is
\* between its delete_many and its insert_one.
NoCallInFlight(tok) ==
    \A q \in Reqs :
      pc[q].st = "history" => pc[q].user_id # get_current_user(tok).user_id

NextHistorySeq ==
    \/ \E p \in Reqs, tok \in Tokens, data \in HistoryInputs :
         NoCallInFlight(tok) /\ CreateMedicalHistoryDelete(p, tok, data)
    \/ \E p \in Reqs : CreateMedicalHistoryInsert(p)
    \/ \E tok \in Tokens : GetMedicalHistory(tok)
    \/ Tick(MaxTicks)
SpecHistorySeq == InitUsers /\ [][NextHistorySeq]_vars

\* The analysis orchestrator alone.
NextAnalysis ==
    AnalysisSteps(Tokens, {ImageFile(PngBase64), NotAnImage},
                  {HistoryData(45, TRUE, FALSE, TRUE, "dense")},
                  {AIReply(ReplyHigh), AIFailure}, MaxAnalyses)
SpecAnalysis == InitUsers /\ [][NextAnalysis]_vars

\* risk_assessment on every request of RiskRequests and every reply.
NextRisk ==
    \E tok \in IssuedTokens, data \in RiskRequests, ai \in Replies :
      RiskAssessment(tok, data, ai, TRUE, MaxDocs)
SpecRisk == InitUsers /\ [][NextRisk]_vars

\* The analyses store once user 1 has run Prefill risk assessments, one per
\* tick of the clock, so that the cap of get_analyses is reached.
Prefill == 99

PrefilledAnalyses ==
    LET data == HistoryData(25, FALSE, FALSE, FALSE, "normal")
        risk_level == risk_level_of(risk_score(data))
    IN [k \in 1..Prefill |->
          NewAnalysisDoc(k, 1, "risk_assessment", ReplyLow, risk_level,
                         risk_recommendations(risk_level), <<>>,
                         isoformat(k))]

InitList ==
    /\ users = SeededUsers
    /\ medical_history = {}
    /\ analyses = PrefilledAnalyses
    /\ pc = [p \in Reqs |-> Idle]
    /\ resp = NoResp
    /\ now = Prefill

NextList ==
    \/ AnalysisSteps(IssuedTokens, {ImageFile(PngBase64)},
                     {HistoryData(45, TRUE, FALSE, TRUE, "dense")},
                     {AIReply(ReplyLow)}, Prefill + MaxAnalyses)
    \/ Tick(Prefill + MaxTicks)
SpecList == InitList /\ [][NextList]_vars

\* analyze_image alone, on uploads of every length class, the AI and the
\* store answering or failing.
NextImage ==
    \E tok \in IssuedTokens, file \in ImageFiles \cup {NotAnImage},
       ai \in {AIReply(ReplyLow), AIFailure}, insertOk \in BOOLEAN :
      AnalyzeImage(tok, file, ai, insertOk, MaxAnalyses)
SpecImage == InitUsers /\ [][NextImage]_vars

\* analyze_image on every reply text of ReplyTexts, by both users, on two
\* uploads, with and without analyses stored before.
NextReply ==
    \E tok \in IssuedTokens, file \in {Upload(8), Upload(11)},
       text \in ReplyTexts :
      AnalyzeImage(tok, file, AIReply(text), TRUE, MaxAnalyses)
SpecReply == InitUsers /\ [][NextReply]_vars

\* Requests of every risk level: ages 25, 45 and 51, every combination of
\* the factors.
RecRequests == {d \in RiskRequests : d.age \in {25, 45, 51}}

\* risk_assessment and analyze_image, each at every risk level, the AI
\* reply naming a level of its own.
NextRecs ==
    \/ \E tok \in IssuedTokens, data \in RecRequests,
          ai \in {AIReply(ReplyHigh), AIReply(ReplyLow)} :
         RiskAssessment(tok, data, ai, TRUE, MaxAnalyses)
    \/ \E tok \in IssuedTokens, ai \in Replies :
         AnalyzeImage(tok, Upload(8), ai, TRUE, MaxAnalyses)
SpecRecs == InitUsers /\ [][NextRecs]_vars

\* ================================================================ claims
ProtectedOps ==
    {"get_me", "create_medical_history", "get_medical_history",
     "analyze_image", "risk_assessment", "get_analyses"}

\* ---------------------------------------------------------------- C1
\* The reference policy, as the specification's table states it.
RefAgePoints(age) ==
    CASE age > 50 -> 3
      [] age > 40 /\ age <= 50 -> 2
      [] age > 30 /\ age <= 40 -> 1
      [] OTHER -> 0

RefScore(d) ==
    RefAgePoints(d.age)
      + (IF d.family_history THEN 4 ELSE 0)
      + (IF d.previous_biopsies THEN 3 ELSE 0)
      + (IF d.hormone_therapy THEN 2 ELSE 0)
      + (IF d.breast_density = "dense" THEN 2 ELSE 0)

RefLevel(score) ==
    CASE score >= 8 -> "high"
      [] score >= 4 /\ score < 8 -> "moderate"
      [] score < 4 -> "low"

\* C1: the risk_level a successful risk_assessment returns, and the one of
\* the Analysis it has just persisted, is the reference policy's level for
\* the request, whatever text the AI collaborator replied.
C1_RiskLevelIsPolicy ==
    (resp.op = "risk_assessment" /\ resp.status = 200) =>
      /\ resp.body.risk_level = RefLevel(RefScore(resp.req))
      /\ analyses[Len(analyses)].id = resp.body.id
      /\ analyses[Len(analyses)].risk_level = RefLevel(RefScore(resp.req))

\* age 45 + family history + hormone therapy + dense is high although the
\* AI replied "low"
C1_Witness ==
    /\ resp.op = "risk_assessment"
    /\ resp.status = 200
    /\ resp.req = HistoryData(45, TRUE, FALSE, TRUE, "dense")
    /\ resp.reply = ReplyLow
    /\ resp.body.risk_level = "high"
    /\ analyses[Len(analyses)].risk_level = "high"

\* ---------------------------------------------------------------- C2
OthersUntouched(user_id) ==
    {d \in medical_history' : d.user_id # user_id}
      = {d \in medical_history : d.user_id # user_id}

SameFields(doc, data) ==
    /\ doc.age = data.age
    /\ doc.family_history = data.family_history
    /\ doc.previous_biopsies = data.previous_biopsies
    /\ doc.hormone_therapy = data.hormone_therapy
    /\ doc.first_pregnancy_age = data.first_pregnancy_age
    /\ doc.menstruation_age = data.menstruation_age
    /\ doc.breast_density = data.breast_density

C2_Step ==
    /\ (resp'.op = "create_medical_history" /\ resp'.status = 200) =>
         /\ Cardinality({d \in medical_history' :
                           d.user_id = resp'.body.user_id}) = 1
         /\ \A d \in medical_history' :
              d.user_id = resp'.body.user_id =>
                d.id = resp'.body.id /\ SameFields(d, resp'.req)
         /\ OthersUntouched(resp'.body.user_id)
    /\ \A p \in Reqs :
         (pc[p] = Idle /\ pc'[p].st = "history") =>
           OthersUntouched(pc'[p].user_id)

\* C2: when the create_medical_history calls of one user do not overlap,
\* every completed call leaves exactly one record of that user, with the
\* fields of that call, and no step of the call touches another user's
\* records.
C2_SequentialReplace == [][C2_Step]_vars

\* a call of user 1 has completed while user 2 holds a record and has
\* another call in flight
C2_Witness ==
    /\ resp.op = "create_medical_history"
    /\ resp.status = 200
    /\ resp.body.user_id = 1
    /\ \E p \in Reqs : pc[p].st = "history" /\ pc[p].user_id = 2
    /\ Cardinality(medical_history) = 1

\* ---------------------------------------------------------------- C3
\* C3: at most one MedicalHistory record per user in every reachable state,
\* create_medical_history requests of one user interleaving included.
C3_AtMostOneHistoryPerUser ==
    \A d1, d2 \in medical_history : d1.user_id = d2.user_id => d1 = d2

\* ---------------------------------------------------------------- C4
\* C4: no two User records have the same email in any reachable state,
\* register requests with the same email interleaving included.
C4_EmailUnique ==
    \A u1, u2 \in users : u1.email = u2.email => u1 = u2

\* ---------------------------------------------------------------- C5
C5_Step ==
    /\ (resp'.op = "register" /\ resp'.status = 400) =>
         /\ \E u \in users : u.email = resp'.email
         /\ users' = users
         /\ pc' = pc
         /\ "token" \notin DOMAIN resp'
    /\ \A p \in Reqs :
         (pc[p] = Idle /\ pc'[p].st = "register") =>
           /\ ~ \E u \in users : u.email = pc'[p].email
           /\ users' = users
    /\ (resp'.op = "register" /\ resp'.status = 200) =>
         /\ Cardinality(users') = Cardinality(users) + 1
         /\ users \subseteq users'
         /\ \A doc \in users' \ users :
              /\ doc.email = resp'.email
              /\ resp'.user.id = doc.id
              /\ resp'.user.email = doc.email
              /\ resp'.user.full_name = doc.full_name
              /\ resp'.token = create_token(doc.id, doc.email)
         /\ "password" \notin DOMAIN resp'.user

\* C5: a register call that finds its email stored answers 400, issues no
\* token and leaves the users unchanged (and no call whose email is stored
\* gets past the check); a call that got past the check adds exactly one
\* user and returns a token and the user without the password.
C5_RegisterOutcome == [][C5_Step]_vars

\* the conflict, both users being stored
C5_Witness ==
    /\ resp.op = "register"
    /\ resp.status = 400
    /\ Cardinality(users) = 2

\* ---------------------------------------------------------------- C6
\* expired, tampered or malformed
RejectedToken(tok) ==
    tok.form # "jwt" \/ tok.sig # "valid" \/ tok.exp # "future"

C6_Step ==
    (resp'.op \in ProtectedOps /\ RejectedToken(resp'.tok)) =>
      /\ resp'.status = 401
      /\ resp'.ai = FALSE
      /\ users' = users
      /\ medical_history' = medical_history
      /\ analyses' = analyses
      /\ pc' = pc

\* C6: on every protected route a request with an expired, tampered or
\* malformed token is answered 401, writes nothing and calls no AI.
C6_BadTokenIs401 == [][C6_Step]_vars

\* an expired token of a stored user on POST /analyze-image
C6_Witness ==
    /\ resp.op = "analyze_image"
    /\ resp.tok.form = "jwt"
    /\ resp.tok.sig = "valid"
    /\ resp.tok.exp = "past"
    /\ resp.status = 401
    /\ \E u \in users : u.id = resp.tok.user_id

\* ---------------------------------------------------------------- C7
C7_Step ==
    resp'.op \in {"analyze_image", "risk_assessment"} =>
      IF resp'.status = 200
        THEN /\ Len(analyses') = Len(analyses) + 1
             /\ SubSeq(analyses', 1, Len(analyses)) = analyses
             /\ analyses'[Len(analyses')].id = resp'.body.id
             /\ analyses'[Len(analyses')].user_id = resp'.body.user_id
             /\ analyses'[Len(analyses')].analysis_type
                  = resp'.body.analysis_type
        ELSE analyses' = analyses

\* C7: analyze_image and risk_assessment persist exactly one Analysis when
\* they answer 200 and none when they end in an error.
C7_PersistedIffSuccess == [][C7_Step]_vars

\* the store raised in insert_one, after the AI call, with one Analysis
\* persisted before
C7_Witness ==
    /\ resp.op \in {"analyze_image", "risk_assessment"}
    /\ resp.status = 500
    /\ resp.cause = "insert_one failed"
    /\ Len(analyses) = 1

\* ---------------------------------------------------------------- C8
\* C8: analyze_image on bytes that are no image ends in an outcome other
\* than the generic server error (500) of the AI and store failures, and
\* the AI collaborator is not invoked.
C8_UndecodableIsInvalidInput ==
    (resp.op = "analyze_image" /\ "req" \in DOMAIN resp
       /\ ~resp.req.decodable) =>
      /\ resp.status # 500
      /\ ~resp.ai

\* ---------------------------------------------------------------- C9
Owned(user_id) == {i \in 1..Len(analyses) : analyses[i].user_id = user_id}

ReturnedIds == {resp.body[k].id : k \in 1..Len(resp.body)}

\* what get_analyses returns is made of the caller's stored records, each
\* once, at most ListLimit of them and all of them when there are fewer
C9_OwnedAndCapped(user_id) ==
    /\ Len(resp.body) <= ListLimit
    /\ Len(resp.body) =
         (IF Cardinality(Owned(user_id)) > ListLimit THEN ListLimit
          ELSE Cardinality(Owned(user_id)))
    /\ \A k \in 1..Len(resp.body) :
         /\ resp.body[k].user_id = user_id
         /\ resp.body[k].id \in Owned(user_id)
         /\ resp.body[k] = [analyses[resp.body[k].id] EXCEPT
                              !.created_at = resp.body[k].created_at]
         /\ resp.body[k].created_at
              = fromisoformat(analyses[resp.body[k].id].created_at)
    /\ Cardinality(ReturnedIds) = Len(resp.body)

\* no record of the caller that was left out is more recent than a record
\* returned
C9_MostRecent(user_id) ==
    \A i \in Owned(user_id) \ ReturnedIds :
      \A k \in 1..Len(resp.body) :
        fromisoformat(analyses[i].created_at) <= resp.body[k].created_at

\* C9 as stated: the caller's records, at most 100, the most recent ones,
\* in strictly descending order of creation time.
C9_StrictlyDescending ==
    (resp.op = "get_analyses" /\ resp.status = 200) =>
      /\ C9_OwnedAndCapped(resp.tok.user_id)
      /\ C9_MostRecent(resp.tok.user_id)
      /\ \A k \in 1..(Len(resp.body) - 1) :
           resp.body[k].created_at > resp.body[k + 1].created_at

\* C9 as amended: the same, the creation times never increasing along the
\* list (records created at the same instant follow one another).
C9_Descending ==
    (resp.op = "get_analyses" /\ resp.status = 200) =>
      /\ C9_OwnedAndCapped(resp.tok.user_id)
      /\ C9_MostRecent(resp.tok.user_id)
      /\ \A k \in 1..(Len(resp.body) - 1) :
           resp.body[k].created_at >= resp.body[k + 1].created_at

\* the caller owns more than ListLimit records, the two newest created in
\* the same tick, and the list is cut to ListLimit
C9_Witness ==
    /\ resp.op = "get_analyses"
    /\ resp.status = 200
    /\ Cardinality(Owned(resp.tok.user_id)) > ListLimit
    /\ Len(resp.body) = ListLimit
    /\ resp.body[1].created_at = resp.body[2].created_at

\* --------------------------------------------------------------- C10
C10_Step ==
    /\ users \subseteq users'
    /\ Len(analyses) <= Len(analyses')
    /\ SubSeq(analyses', 1, Len(analyses)) = analyses
    /\ \A d \in medical_history \ medical_history' :
         \E p \in Reqs :
           /\ pc[p] = Idle
           /\ pc'[p].st = "history"
           /\ pc'[p].user_id = d.user_id

\* C10: no step removes or changes a User or an Analysis record, and the
\* only records a step removes are MedicalHistory records of the user whose
\* create_medical_history call takes the step.
C10_AppendOnly == [][C10_Step]_vars

\* a create_medical_history call has deleted its user's record (the stored
\* record of the other user has id 2, and id 1 is free again), with two
\* users and an Analysis stored
C10_Witness ==
    /\ Cardinality(users) = 2
    /\ Len(analyses) >= 1
    /\ medical_history # {}
    /\ \A d \in medical_history : d.id # 1
    /\ \E p \in Reqs :
         /\ pc[p].st = "history"
         /\ \A d \in medical_history : d.user_id # pc[p].user_id

\* --------------------------------------------------------------- C11
\* C11: a successful analyze_image response has no image_data field, and
\* the Analysis the same call persisted has type image and, as image_data,
\* the first 1000 characters of the base64 text of the upload (all of it
\* when it has fewer than 1000 characters).
C11_ThumbnailStoredNotReturned ==
    (resp.op = "analyze_image" /\ resp.status = 200) =>
      LET stored == analyses[Len(analyses)]
          b64 == resp.req.img_base64
      IN /\ "image_data" \notin DOMAIN resp.body
         /\ stored.id = resp.body.id
         /\ stored.user_id = resp.tok.user_id
         /\ stored.analysis_type = "image"
         /\ resp.body.analysis_type = "image"
         /\ IF Len(b64) < 1000
              THEN stored.image_data = b64
              ELSE /\ Len(stored.image_data) = 1000
                   /\ \A k \in 1..1000 : stored.image_data[k] = b64[k]

\* an upload of more than 1000 base64 characters has been stored cut to
\* 1000, after one of 12 characters that was stored whole
C11_Witness ==
    /\ resp.op = "analyze_image"
    /\ resp.status = 200
    /\ Len(resp.req.img_base64) > 1000
    /\ Len(analyses) = 2
    /\ Len(analyses[2].image_data) = 1000
    /\ analyses[2].image_data # resp.req.img_base64
    /\ analyses[1].image_data = PngBase64

\* --------------------------------------------------------------- C12
\* two characters that are the same letter in either case, or equal
SameLetter(c1, c2) ==
    \/ c1 = c2
    \/ c1 >= 65 /\ c1 <= 90 /\ c2 = c1 + 32
    \/ c2 >= 65 /\ c2 <= 90 /\ c1 = c2 + 32

\* sub occurs in s, the case of letters ignored
OccursIgnoringCase(sub, s) ==
    \E k \in 1..(Len(s) - Len(sub) + 1) :
      \A i \in 1..Len(sub) : SameLetter(s[k + i - 1], sub[i])

\* the scan as the specification words it
RefImageLevel(text) ==
    IF OccursIgnoringCase(HIGH_RISK, text)
         \/ OccursIgnoringCase(HIGH_RISK_HYPHEN, text)
      THEN "high"
    ELSE IF OccursIgnoringCase(MODERATE, text) THEN "moderate"
    ELSE "low"

\* C12: the risk_level of a successful analyze_image, returned and
\* persisted, is high when the reply contains "high risk" or "high-risk" in
\* any case (also when it contains "moderate"), else moderate when it
\* contains "moderate", else low: one of the three levels, a function of
\* the reply text alone (not of the user, the upload or what is stored).
C12_LevelFromReplyText ==
    (resp.op = "analyze_image" /\ resp.status = 200) =>
      /\ resp.body.risk_level = RefImageLevel(resp.reply)
      /\ resp.body.risk_level \in {"low", "moderate", "high"}
      /\ analyses[Len(analyses)].id = resp.body.id
      /\ analyses[Len(analyses)].result = resp.reply
      /\ analyses[Len(analyses)].risk_level = resp.body.risk_level

\* a reply with "moderate" ahead of "high-risk" has been rated high, after
\* a reply with "high" and "moderate" but no "high risk" was rated moderate
C12_Witness ==
    /\ resp.op = "analyze_image"
    /\ resp.status = 200
    /\ resp.reply = ReplyHighModerate
    /\ resp.body.risk_level = "high"
    /\ Len(analyses) = 2
    /\ analyses[2].risk_level = "high"
    /\ analyses[1].result = ReplyHighNotModerate
    /\ analyses[1].risk_level = "moderate"

\* --------------------------------------------------------------- C13
RefBaseline ==
    <<"Schedule annual mammogram screening",
      "Perform monthly self-examinations",
      "Maintain a healthy lifestyle",
      "Discuss results with your healthcare provider">>

RefRiskRecommendations(level) ==
    IF level = "high"
      THEN <<"Consult with an oncologist immediately",
             "Consider genetic testing">> \o RefBaseline
      ELSE RefBaseline

RefImageRecommendations ==
    <<"Consult with a healthcare professional",
      "Schedule a follow-up examination",
      "Maintain regular screening schedule">>

\* C13: the recommendations of a successful risk_assessment, returned and
\* persisted, are those of the computed risk level: at high six items,
\* the oncologist referral, the genetic-testing suggestion, then the four
\* baseline items in their order; at moderate and low the four baseline
\* items.  Those of a successful analyze_image are the same three items at
\* every risk level.
C13_Recommendations ==
    /\ (resp.op = "risk_assessment" /\ resp.status = 200) =>
         /\ resp.body.risk_level = RefLevel(RefScore(resp.req))
         /\ resp.body.recommendations
              = RefRiskRecommendations(resp.body.risk_level)
         /\ Len(resp.body.recommendations)
              = (IF resp.body.risk_level = "high" THEN 6 ELSE 4)
         /\ analyses[Len(analyses)].id = resp.body.id
         /\ analyses[Len(analyses)].recommendations
              = resp.body.recommendations
    /\ (resp.op = "analyze_image" /\ resp.status = 200) =>
         /\ resp.body.recommendations = RefImageRecommendations
         /\ analyses[Len(analyses)].id = resp.body.id
         /\ analyses[Len(analyses)].recommendations
              = RefImageRecommendations

\* an image rated high has got the three items, after a risk assessment
\* at level high, the AI replying "low", got the six
C13_Witness ==
    /\ resp.op = "analyze_image"
    /\ resp.status = 200
    /\ resp.body.risk_level = "high"
    /\ Len(resp.body.recommendations) = 3
    /\ Len(analyses) = 2
    /\ analyses[1].analysis_type = "risk_assessment"
    /\ analyses[1].risk_level = "high"
    /\ analyses[1].result = ReplyLow
    /\ Len(analyses[1].recommendations) = 6
    /\ analyses[1].recommendations[2] = "Consider genetic testing"

====
